---- MODULE Spec2Model ----
(***************************************************************************)
(* Model of src/main.py: the in-memory offer store (offers_db) and its     *)
(* three request handlers, POST /api/offers (create_offers), GET           *)
(* /api/offers (get_offers) and DELETE /api/offers (delete_offers).        *)
(*                                                                         *)
(* Strings that the code compares (offer IDs) are sequences of code        *)
(* points, compared lexicographically as Python compares str.  Optional    *)
(* query parameters are <<>> for None and <<v>> for a given value v.       *)
(*                                                                         *)
(* Spec     handles one request at a time (each handler is one action).    *)
(* ConcSpec runs one get_offers in a worker thread, one iteration of the   *)
(*          list comprehension of line 125 per step, while create_offers   *)
(*          and delete_offers run in other threads.                        *)
(***************************************************************************)
EXTENDS Integers, Sequences, FiniteSets, TLC

VARIABLES
    regions_data,      \* main.py:64-72, pairs <<parent, child>> of the loaded tree
    offers_db,         \* main.py:61, the list of offer dicts
    lastOp,            \* the handler that returned last: "none", "create", "search", "delete"
    query,             \* the parameters of the last get_offers call, NoQuery otherwise
    filtered_offers,   \* get_offers local, after the sort of line 129
    paginated_offers,  \* get_offers local, line 134
    response,          \* the body the last handler returned
    inserted,          \* history: the offers passed to create_offers since the last delete_offers
    cleared,           \* history: delete_offers ran and no create_offers since
    dropped,           \* history: the number of offers the delete_offers that set cleared removed
    pc,                \* ConcSpec: "idle", "filtering" (inside line 125), "done"
    idx,               \* ConcSpec: the list iterator's index into offers_db
    acc,               \* ConcSpec: the offers the comprehension has collected so far
    snaps              \* ConcSpec history: the values offers_db took since the search began

vars == <<regions_data, offers_db, lastOp, query, filtered_offers, paginated_offers,
          response, inserted, cleared, dropped, pc, idx, acc, snaps>>

searchVars == <<pc, idx, acc, snaps>>

-----------------------------------------------------------------------------
(* Bounds of the model *)

MaxStore == 3

MaxBatch == 2

MaxPage == 2

MaxInterleave == 1

(* Milliseconds in the "full days (24h)" of numberDays, timestamps being ms *)
MS_PER_DAY == 86400000

-----------------------------------------------------------------------------
(* Inputs *)

None == <<>>

Some(v) == <<v>>

CarTypes == {"small", "sports", "luxury", "family"}

\* The content of regions.json, as <<parent, child>> pairs: a tree with root
\* 1 and children 2 and 3.
RegionsFile == {<<1, 2>>, <<1, 3>>}

MkOffer(id, data, region, start, end, seats, price, carType, vk, km) ==
    [ID |-> id, data |-> data, mostSpecificRegionID |-> region,
     startDate |-> start, endDate |-> end, numberSeats |-> seats,
     price |-> price, carType |-> carType, hasVollkasko |-> vk,
     freeKilometers |-> km]

\* Offers a client can post.  IDs are "a", "a", "ab", "B": two offers share
\* identifier and price and differ in payload; "B" < "a" < "ab".  Their
\* regions are 2, 2, 1 (the parent of 2) and 3 (a sibling of 2); the first is
\* available for exactly one day, the second for one millisecond less.
OfferPool ==
    { MkOffer(<<97>>,     "x", 2, 0, MS_PER_DAY,     4, 1000, "small",  TRUE,  100),
      MkOffer(<<97>>,     "y", 2, 0, MS_PER_DAY - 1, 2, 1000, "sports", FALSE, 50),
      MkOffer(<<97, 98>>, "z", 1, 0, 2 * MS_PER_DAY, 5, 1000, "small",  FALSE, 200),
      MkOffer(<<66>>,     "w", 3, 0, 2 * MS_PER_DAY, 4, 2000, "luxury", TRUE,  100) }

SeqsUpTo(S, n) == UNION { [1..k -> S] : k \in 0..n }

Batches == SeqsUpTo(OfferPool, MaxBatch)

PageVals == (0 - 1)..MaxPage

Queries ==
    [ regionID : {2},
      timeRangeStart : {0},
      timeRangeEnd : {2 * MS_PER_DAY},
      numberDays : {1},
      sortOrder : {"price-asc", "price-desc"},
      page : PageVals,
      pageSize : PageVals,
      priceRangeWidth : {1000},
      minFreeKilometerWidth : {50},
      minNumberSeats : {None},
      minPrice : {None},
      maxPrice : {None},
      carType : {None, Some("small")},
      onlyVollkasko : {None},
      minFreeKilometer : {None} ]

NoQuery == [sortOrder |-> "none"]

-----------------------------------------------------------------------------
(* Python primitives the handlers use *)

\* str < str: lexicographic on code points, a proper prefix is smaller
RECURSIVE StrLt(_, _)
StrLt(a, b) ==
    IF b = <<>> THEN FALSE
    ELSE IF a = <<>> THEN TRUE
    ELSE IF Head(a) # Head(b) THEN Head(a) < Head(b)
    ELSE StrLt(Tail(a), Tail(b))

\* list[start:end] with step 1: negative indices count from the end, and
\* both indices are clamped to 0..len
ClampIndex(i, n) ==
    IF i < 0 THEN (IF i + n < 0 THEN 0 ELSE i + n)
    ELSE (IF i > n THEN n ELSE i)

PySlice(s, start, end) ==
    LET lo == ClampIndex(start, Len(s))
        hi == ClampIndex(end, Len(s))
    IN  IF lo < hi THEN SubSeq(s, lo + 1, hi) ELSE <<>>

\* offer.dict(): the dict of the model's ten fields
offer_dict(o) ==
    [ID |-> o.ID, data |-> o.data, mostSpecificRegionID |-> o.mostSpecificRegionID,
     startDate |-> o.startDate, endDate |-> o.endDate, numberSeats |-> o.numberSeats,
     price |-> o.price, carType |-> o.carType, hasVollkasko |-> o.hasVollkasko,
     freeKilometers |-> o.freeKilometers]

-----------------------------------------------------------------------------
(* list.sort(key=lambda x: (x['price'], x['ID']), reverse=...), line 129 *)

\* Faulty variant: key=lambda x: x['price'], the identifier left out of the key
SortKeyLt_PriceOnly(x, y) == x.price < y.price

\* The key of y is greater than the key of x, as tuples (price, ID)
SortKeyLt(x, y) ==
    \/ x.price < y.price
    \/ x.price = y.price /\ StrLt(x.ID, y.ID)

\* x has to come before y in the sorted list
Precedes(x, y, reverse) ==
    IF reverse THEN SortKeyLt(y, x) ELSE SortKeyLt(x, y)

\* list.sort is stable, also with reverse=True: an element goes after every
\* element sorted so far that it does not have to precede
RECURSIVE InsertStable(_, _, _)
InsertStable(sorted, x, reverse) ==
    IF sorted = <<>> THEN <<x>>
    ELSE IF Precedes(x, Head(sorted), reverse) THEN <<x>> \o sorted
    ELSE <<Head(sorted)>> \o InsertStable(Tail(sorted), x, reverse)

RECURSIVE SortFrom(_, _, _)
SortFrom(sorted, rest, reverse) ==
    IF rest = <<>> THEN sorted
    ELSE SortFrom(InsertStable(sorted, Head(rest), reverse), Tail(rest), reverse)

list_sort(s, reverse) == SortFrom(<<>>, s, reverse)

-----------------------------------------------------------------------------
(* Helpers of get_offers *)

\* lines 106-111
mandatory_filters(q) ==
    [regionID |-> q.regionID, timeRangeStart |-> q.timeRangeStart,
     timeRangeEnd |-> q.timeRangeEnd, numberDays |-> q.numberDays]

OptionalKeys ==
    {"minNumberSeats", "minPrice", "maxPrice", "carType", "onlyVollkasko",
     "minFreeKilometer"}

\* lines 112-122: the optional parameters that are not None
optional_filters(q) ==
    [k \in {k \in OptionalKeys : q[k] # None} |-> q[k][1]]

\* lines 165-167: the placeholder accepts every offer
matches_filters(offer, mandatory, optional) == TRUE

\* lines 169-188: the placeholder returns empty aggregations
compute_aggregations(filtered, priceRangeWidth, minFreeKilometerWidth, mandatory, optional) ==
    [priceRanges |-> <<>>,
     carTypeCounts |-> [small |-> 0, sports |-> 0, luxury |-> 0, family |-> 0],
     seatsCount |-> <<>>,
     freeKilometerRange |-> <<>>,
     vollkaskoCount |-> [trueCount |-> 0, falseCount |-> 0]]

\* line 125, run to completion over one value of offers_db
FilterOffers(db, q) ==
    SelectSeq(db, LAMBDA o : matches_filters(o, mandatory_filters(q), optional_filters(q)))

\* lines 128-129
SortOffers(collected, q) == list_sort(collected, q.sortOrder = "price-desc")

\* Faulty variant: pages counted from zero
start_index_ZeroBased(page, pageSize) == page * pageSize

\* line 132
start_index(page, pageSize) == (page - 1) * pageSize

\* lines 132-134
Paginate(sorted, q) ==
    LET s == start_index(q.page, q.pageSize)
        e == s + q.pageSize
    IN  PySlice(sorted, s, e)

\* lines 137-139
SearchResultOffers(page) ==
    [i \in 1..Len(page) |-> [ID |-> page[i].ID, data |-> page[i].data]]

\* lines 142-154
GetOffersResponse(sorted, page, q) ==
    LET agg == compute_aggregations(sorted, q.priceRangeWidth, q.minFreeKilometerWidth,
                                    mandatory_filters(q), optional_filters(q))
    IN  [offers |-> SearchResultOffers(page),
         priceRanges |-> agg.priceRanges,
         carTypeCounts |-> agg.carTypeCounts,
         seatsCount |-> agg.seatsCount,
         freeKilometerRange |-> agg.freeKilometerRange,
         vollkaskoCount |-> agg.vollkaskoCount]

\* lines 127-156, from the collected offers to the returned body
FinishSearch(collected, q) ==
    /\ filtered_offers' = SortOffers(collected, q)
    /\ paginated_offers' = Paginate(filtered_offers', q)
    /\ response' = GetOffersResponse(filtered_offers', paginated_offers', q)

\* Faulty variant: an offer whose ID the store already holds is dropped
list_extend_Dedup(db, items) ==
    db \o SelectSeq(items, LAMBDA o : \A i \in 1..Len(db) : db[i].ID # o.ID)

\* line 81
list_extend(db, items) == db \o items

\* Faulty variant: offers_db = [] binds a local name and leaves the list as it was
list_clear_Rebind(db) == db

\* line 161
list_clear(db) == <<>>

StatusCreated == [status |-> "success", message |-> "Offers created successfully"]

StatusDeleted == [status |-> "success", message |-> "All offers deleted"]

Pending == [status |-> "pending"]

-----------------------------------------------------------------------------
(* Initial state: the module is imported, lines 61-72 *)

Init ==
    /\ regions_data = RegionsFile
    /\ offers_db = <<>>
    /\ lastOp = "none"
    /\ query = NoQuery
    /\ filtered_offers = <<>>
    /\ paginated_offers = <<>>
    /\ response = Pending
    /\ inserted = <<>>
    /\ cleared = FALSE
    /\ dropped = 0
    /\ pc = "idle"
    /\ idx = 0
    /\ acc = <<>>
    /\ snaps = {}

-----------------------------------------------------------------------------
(* Handlers, one request at a time *)

\* lines 80-81: what create_offers does to the store
StoreExtend(offers) ==
    /\ Len(offers_db) + Len(offers) <= MaxStore
    /\ LET offer_dicts == [i \in 1..Len(offers) |-> offer_dict(offers[i])]
       IN  offers_db' = list_extend(offers_db, offer_dicts)
    /\ inserted' = inserted \o offers
    /\ cleared' = FALSE
    /\ dropped' = 0

\* line 161: what delete_offers does to the store
StoreClear ==
    /\ offers_db' = list_clear(offers_db)
    /\ inserted' = <<>>
    /\ cleared' = TRUE
    /\ dropped' = IF cleared THEN dropped ELSE Len(offers_db)

SearchIdle ==
    /\ pc' = "idle"
    /\ idx' = 0
    /\ acc' = <<>>
    /\ snaps' = {}

\* POST /api/offers, lines 75-84
create_offers(offers) ==
    /\ pc # "filtering"
    /\ StoreExtend(offers)
    /\ lastOp' = "create"
    /\ query' = NoQuery
    /\ filtered_offers' = <<>>
    /\ paginated_offers' = <<>>
    /\ response' = StatusCreated
    /\ SearchIdle
    /\ UNCHANGED regions_data

\* DELETE /api/offers, lines 159-162
delete_offers ==
    /\ pc # "filtering"
    /\ StoreClear
    /\ lastOp' = "delete"
    /\ query' = NoQuery
    /\ filtered_offers' = <<>>
    /\ paginated_offers' = <<>>
    /\ response' = StatusDeleted
    /\ SearchIdle
    /\ UNCHANGED regions_data

\* GET /api/offers, lines 87-156, with no other request running
get_offers(q) ==
    /\ pc = "idle"
    /\ lastOp' = "search"
    /\ query' = q
    /\ FinishSearch(FilterOffers(offers_db, q), q)
    /\ UNCHANGED <<regions_data, offers_db, inserted, cleared, dropped, searchVars>>

Next ==
    \/ \E offers \in Batches : create_offers(offers)
    \/ delete_offers
    \/ \E q \in Queries : get_offers(q)

Spec == Init /\ [][Next]_vars

-----------------------------------------------------------------------------
(* get_offers in a worker thread, with writers running between its steps.  *)
(* list.extend and list.clear are single steps; the list comprehension of  *)
(* line 125 reads offers_db through a list iterator, one element per step, *)
(* and stops when the iterator's index reaches the list's current length.  *)

\* the call: parameters are bound, the iterator is created
SearchBegin(q) ==
    /\ pc # "filtering"
    /\ lastOp' = "search"
    /\ query' = q
    /\ filtered_offers' = <<>>
    /\ paginated_offers' = <<>>
    /\ response' = Pending
    /\ pc' = "filtering"
    /\ idx' = 0
    /\ acc' = <<>>
    /\ snaps' = {offers_db}
    /\ UNCHANGED <<regions_data, offers_db, inserted, cleared, dropped>>

\* one iteration of line 125
SearchIter ==
    /\ pc = "filtering"
    /\ idx < Len(offers_db)
    /\ LET offer == offers_db[idx + 1]
       IN  acc' = IF matches_filters(offer, mandatory_filters(query), optional_filters(query))
                  THEN Append(acc, offer)
                  ELSE acc
    /\ idx' = idx + 1
    /\ UNCHANGED <<regions_data, offers_db, lastOp, query, filtered_offers,
                   paginated_offers, response, inserted, cleared, dropped, pc, snaps>>

\* the iterator is exhausted: lines 127-156
SearchEnd ==
    /\ pc = "filtering"
    /\ idx >= Len(offers_db)
    /\ FinishSearch(acc, query)
    /\ pc' = "done"
    /\ UNCHANGED <<regions_data, offers_db, lastOp, query, inserted, cleared, dropped,
                   idx, acc, snaps>>

\* create_offers in another thread while the search is inside line 125
ConcCreate(offers) ==
    /\ pc = "filtering"
    /\ Cardinality(snaps) <= MaxInterleave
    /\ StoreExtend(offers)
    /\ snaps' = snaps \cup {offers_db'}
    /\ UNCHANGED <<regions_data, lastOp, query, filtered_offers, paginated_offers,
                   response, pc, idx, acc>>

\* delete_offers in another thread while the search is inside line 125
ConcDelete ==
    /\ pc = "filtering"
    /\ Cardinality(snaps) <= MaxInterleave
    /\ StoreClear
    /\ snaps' = snaps \cup {offers_db'}
    /\ UNCHANGED <<regions_data, lastOp, query, filtered_offers, paginated_offers,
                   response, pc, idx, acc>>

ConcNext ==
    \/ \E offers \in Batches : create_offers(offers)
    \/ delete_offers
    \/ \E q \in Queries : SearchBegin(q)
    \/ SearchIter
    \/ SearchEnd
    \/ \E offers \in Batches : ConcCreate(offers)
    \/ ConcDelete

ConcSpec == Init /\ [][ConcNext]_vars

-----------------------------------------------------------------------------
(* What the claims speak of *)

Searched == lastOp = "search" /\ pc # "filtering"

StrLe(a, b) == a = b \/ StrLt(a, b)

Min(a, b) == IF a < b THEN a ELSE b

Max(a, b) == IF a > b THEN a ELSE b

\* candidate is region or a descendant of region in the loaded tree
RECURSIVE InSubtree(_, _)
InSubtree(region, candidate) ==
    \/ candidate = region
    \/ \E e \in regions_data : e[2] = candidate /\ InSubtree(region, e[1])

\* the overlap of the offer's availability and the requested window
Overlap(o, q) ==
    Min(o.endDate, q.timeRangeEnd) - Max(o.startDate, q.timeRangeStart)

WindowFits(o, q) == Overlap(o, q) >= q.numberDays * MS_PER_DAY

NoOptionalFilter(q) == \A k \in OptionalKeys : q[k] = None

\* every filter of q but carType
MatchesExceptCarType(o, q) ==
    /\ InSubtree(q.regionID, o.mostSpecificRegionID)
    /\ WindowFits(o, q)
    /\ q.minNumberSeats = None \/ o.numberSeats >= q.minNumberSeats[1]
    /\ q.minPrice = None \/ o.price >= q.minPrice[1]
    /\ q.maxPrice = None \/ o.price < q.maxPrice[1]
    /\ q.onlyVollkasko = None \/ q.onlyVollkasko[1] = FALSE \/ o.hasVollkasko
    /\ q.minFreeKilometer = None \/ o.freeKilometers >= q.minFreeKilometer[1]

InFiltered(o) == \E j \in 1..Len(filtered_offers) : filtered_offers[j] = o

\* a comes no later than b in ascending (price, ID) order
Ordered(a, b) ==
    \/ a.price < b.price
    \/ a.price = b.price /\ StrLe(a.ID, b.ID)

EmptyFacets(r) ==
    /\ r.priceRanges = <<>>
    /\ r.freeKilometerRange = <<>>
    /\ r.seatsCount = <<>>
    /\ \A t \in CarTypes : r.carTypeCounts[t] = 0
    /\ r.vollkaskoCount.trueCount = 0
    /\ r.vollkaskoCount.falseCount = 0

\* the page a search q returns over a store holding db
PageOver(db, q) ==
    SearchResultOffers(Paginate(SortOffers(FilterOffers(db, q), q), q))

Reorder(db, f) == [i \in 1..Len(db) |-> db[f[i]]]

-----------------------------------------------------------------------------
(* Claims *)

\* C1: every offer of the filtered set of a search with region filter R has
\* a region that is R or a descendant of R in the loaded tree.
C1_RegionFilter ==
    Searched =>
        \A i \in 1..Len(filtered_offers) :
            InSubtree(query.regionID, filtered_offers[i].mostSpecificRegionID)

\* C2: with the region predicate holding and no optional filter, a stored
\* offer is in the filtered set iff its overlap with the requested window is
\* at least numberDays * 86_400_000 ms.
C2_WindowFilter ==
    (Searched /\ NoOptionalFilter(query)) =>
        \A i \in 1..Len(offers_db) :
            InSubtree(query.regionID, offers_db[i].mostSpecificRegionID) =>
                (InFiltered(offers_db[i]) <=> WindowFits(offers_db[i], query))

\* C3: the car-type counts of a search give, for each of the four types, the
\* number of stored offers of that type that satisfy every filter but carType.
C3_CarTypeCounts ==
    Searched =>
        \A t \in CarTypes :
            response.carTypeCounts[t] =
                Cardinality({i \in 1..Len(offers_db) :
                                /\ offers_db[i].carType = t
                                /\ MatchesExceptCarType(offers_db[i], query)})

\* C4: adjacent entries a, b of the returned page satisfy a.price < b.price or
\* (a.price = b.price and a.ID <= b.ID) for price-asc, and the same with a and
\* b exchanged for price-desc.
C4_PageSorted ==
    Searched =>
        /\ Len(response.offers) = Len(paginated_offers)
        /\ \A i \in 1..Len(paginated_offers) :
               response.offers[i].ID = paginated_offers[i].ID
        /\ \A i \in 1..(Len(paginated_offers) - 1) :
               IF query.sortOrder = "price-asc"
               THEN Ordered(paginated_offers[i], paginated_offers[i + 1])
               ELSE Ordered(paginated_offers[i + 1], paginated_offers[i])

\* a descending page of two offers of one price and different identifiers
C4_Witness ==
    /\ Searched
    /\ query.sortOrder = "price-desc"
    /\ Len(paginated_offers) = 2
    /\ paginated_offers[1].price = paginated_offers[2].price
    /\ paginated_offers[1].ID # paginated_offers[2].ID

\* C5: for positive page p and pageSize s the page holds exactly the elements
\* of the sorted filtered set at zero-based offsets (p-1)*s .. (p-1)*s + s - 1
\* that exist; a page past the end is empty.
C5_PageSlice ==
    (Searched /\ query.page > 0 /\ query.pageSize > 0) =>
        LET off == (query.page - 1) * query.pageSize
            cnt == Max(0, Min(query.pageSize, Len(filtered_offers) - off))
        IN  /\ Len(response.offers) = cnt
            /\ \A k \in 1..cnt :
                   response.offers[k] = [ID |-> filtered_offers[off + k].ID,
                                         data |-> filtered_offers[off + k].data]

\* the second page of size two over three offers holds the third alone
C5_Witness ==
    /\ Searched
    /\ query.page = 2
    /\ query.pageSize = 2
    /\ Len(filtered_offers) = 3
    /\ Len(response.offers) = 1

\* C6: a search with page <= 0 or pageSize <= 0 returns an empty page.
C6_NonPositivePageEmpty ==
    (Searched /\ (query.page <= 0 \/ query.pageSize <= 0)) =>
        response.offers = <<>>

\* C7: from delete_offers until the next create_offers the store is empty and
\* every search returns an empty page and empty or all-zero facets.
C7_ClearedIsEmpty ==
    cleared =>
        /\ offers_db = <<>>
        /\ Searched => (response.offers = <<>> /\ EmptyFacets(response))

\* a search after a delete_offers that removed offers
C7_Witness ==
    /\ cleared
    /\ dropped > 0
    /\ Searched

\* C8: the store holds, in order, exactly the offers passed to create_offers
\* since the last delete_offers, duplicates of an identifier included, also
\* after a search.
C8_StoreIsHistory ==
    /\ Len(offers_db) = Len(inserted)
    /\ \A i \in 1..Len(inserted) : offers_db[i] = inserted[i]

\* a search over a store of three offers, two of them with one identifier
C8_Witness ==
    /\ Searched
    /\ Len(offers_db) = 3
    /\ \E i, j \in 1..Len(offers_db) :
           i < j /\ offers_db[i].ID = offers_db[j].ID /\ offers_db[i] # offers_db[j]

\* C9: a store holding the same offers in another order returns the same page.
C9_OrderIndependent ==
    Searched =>
        \A f \in Permutations(1..Len(offers_db)) :
            PageOver(Reorder(offers_db, f), query) = response.offers

\* C10: the offers a search has read are the store's contents at one point
\* between the writes that ran while it was reading.
C10_SnapshotRead ==
    pc = "done" => acc \in snaps

====
